---- MODULE Spec2Model ----
(***************************************************************************)
(* The UIDAI dashboard (src/app.py): a Streamlit script that is re-executed *)
(* from top to bottom on every widget interaction.  The state is the two   *)
(* CSV files on disk, the two st.cache_data memo entries, the two sidebar  *)
(* widgets and what the last execution of the script left behind (its      *)
(* globals, the elements it rendered, an uncaught exception).              *)
(*                                                                         *)
(* Data representation.  A cell that pandas reads as missing is NaN; a     *)
(* parsed timestamp is <<year, month, day>> and the missing timestamp NaT  *)
(* is <<>>.  District names are numbered in lexicographic order (district  *)
(* 1 sorts before district 2), because groupby returns its keys sorted.    *)
(* Count is a natural number.  The forecast table's cells are kept as the  *)
(* CSV's text: the script never does arithmetic on them.                   *)
(***************************************************************************)
EXTENDS Integers, Sequences, FiniteSets

VARIABLES
    fs_master,       \* master_uidai_data_cleaned.csv on disk
    fs_forecast,     \* forecast_data.csv on disk
    cache_master,    \* st.cache_data entry of load_master_data
    cache_forecast,  \* st.cache_data entry of load_forecast_data
    page,            \* value of the sidebar radio "Navigate"
    selected_index,  \* the chosen entry of the sidebar selectbox "Select State"
    session,         \* "idle" before the first execution, then "open"
    data_loaded,     \* script global data_loaded
    df_master,       \* script global df_master (Unbound when never assigned)
    df_forecast,     \* script global df_forecast
    df_filtered,     \* script global df_filtered
    locals,          \* the globals the selected view's branch assigned
    file_reads,      \* the files pd.read_csv opened during the last execution
    exception,       \* the exception that ended the last execution, or "none"
    screen,          \* the elements the last execution rendered, in order
    observed         \* an observer's note of one rendered page

vars == <<fs_master, fs_forecast, cache_master, cache_forecast, page,
          selected_index, session, data_loaded, df_master, df_forecast,
          df_filtered, locals, file_reads, exception, screen, observed>>

-----------------------------------------------------------------------------
(* pandas values *)

NaN == "NaN"

NaT == <<>>

Unbound == [bound |-> FALSE]

Bound(v) == [bound |-> TRUE, value |-> v]

NoFile == [exists |-> FALSE]

File(t) == [exists |-> TRUE, table |-> t]

NotCached == [hit |-> FALSE]

Cached(v) == [hit |-> TRUE, value |-> v]

MASTER_CSV == "master_uidai_data_cleaned.csv"

FORECAST_CSV == "forecast_data.csv"

ALL_INDIA == "All India"

PAGE_SUMMARY == "1. Executive Summary"

PAGE_DEMOGRAPHICS == "2. Demographics (Who?)"

PAGE_MIGRATION == "3. Migration Tracker (Where?)"

PAGE_FORECAST == "4. AI Forecast (Future)"

Pages == <<PAGE_SUMMARY, PAGE_DEMOGRAPHICS, PAGE_MIGRATION, PAGE_FORECAST>>

\* The ISO date strings of the input files and the calendar date each denotes.
DateStrings == {"2024-01-01", "2024-02-01"}

ParseDate(s) ==
    CASE s = "2024-01-01" -> <<2024, 1, 1>>
      [] s = "2024-02-01" -> <<2024, 2, 1>>

\* pd.to_datetime on one cell: a missing cell becomes NaT, a string is parsed.
to_datetime(c) == IF c = NaN THEN NaT ELSE ParseDate(c)

\* Elementwise ==: a missing value equals nothing, not even itself.
PdEq(a, b) == a # NaN /\ b # NaN /\ a = b

\* != that holds only between two values that are present.
PdNe_present(a, b) == a # NaN /\ b # NaN /\ a # b

\* Elementwise !=: the negation of ==, so a missing value differs from everything.
PdNe(a, b) == ~PdEq(a, b)

\* fillna with the preference reversed: the other value unless it is missing.
fillna_reversed(a, b) == IF b = NaN THEN a ELSE b

\* Series.fillna(other) on one row: the row's own value unless it is missing.
fillna(a, b) == IF a = NaN THEN b ELSE a

\* Series.unique(): the distinct values in order of first appearance; the
\* missing value counts as one value.
RECURSIVE unique(_)
unique(s) ==
    IF s = <<>> THEN <<>>
    ELSE LET front == unique(SubSeq(s, 1, Len(s) - 1))
             x == s[Len(s)]
         IN IF \E i \in 1..Len(front) : front[i] = x THEN front
            ELSE Append(front, x)

Column(rows, c) == [i \in 1..Len(rows) |-> rows[i][c]]

\* Series.sum() of the Count column.
RECURSIVE SumCount(_)
SumCount(rows) ==
    IF rows = <<>> THEN 0 ELSE rows[1].Count + SumCount(Tail(rows))

\* Sort orders of the key columns (groupby sorts its keys).
TypeOrder == <<"Enrolment", "Update_Biometric", "Update_Demographic">>

AgeOrder == <<"0-5", "18+", "5-17">>

IndexOf(seq, x) == CHOOSE i \in 1..Len(seq) : seq[i] = x

DateRank(d) == d[1] * 10000 + d[2] * 100 + d[3]

\* df.groupby(keys)['Count'].sum() over the rows given as (key, rank, Count)
\* entries: one entry per distinct key, in ascending key order, with the sum
\* of Count over the key's rows.
GroupSum(kv) ==
    LET keys == {kv[i].key : i \in 1..Len(kv)}
        rank(k) == kv[CHOOSE i \in 1..Len(kv) : kv[i].key = k].rank
        pos(k) == 1 + Cardinality({j \in keys : rank(j) < rank(k)})
    IN [p \in 1..Cardinality(keys) |->
           LET k == CHOOSE j \in keys : pos(j) = p
           IN [key |-> k,
               Count |-> SumCount(SelectSeq(kv, LAMBDA e : e.key = k))]]

\* groupby('district'): rows with a missing district (0) are dropped.
GroupByDistrict(rows) ==
    LET kept == SelectSeq(rows, LAMBDA r : r.district # 0)
    IN GroupSum([i \in 1..Len(kept) |->
                    [key |-> kept[i].district, rank |-> kept[i].district,
                     Count |-> kept[i].Count]])

\* groupby(['date', 'Type'])
GroupByDateType(rows) ==
    LET kept == SelectSeq(rows, LAMBDA r : r.date # NaT /\ r.Type # NaN)
    IN GroupSum([i \in 1..Len(kept) |->
                    [key |-> <<kept[i].date, kept[i].Type>>,
                     rank |-> DateRank(kept[i].date) * 10
                              + IndexOf(TypeOrder, kept[i].Type),
                     Count |-> kept[i].Count]])

\* groupby(['Type', 'Age_Group'])
GroupByTypeAge(rows) ==
    LET kept == SelectSeq(rows, LAMBDA r : r.Type # NaN /\ r.Age_Group # NaN)
    IN GroupSum([i \in 1..Len(kept) |->
                    [key |-> <<kept[i].Type, kept[i].Age_Group>>,
                     rank |-> IndexOf(TypeOrder, kept[i].Type) * 10
                              + IndexOf(AgeOrder, kept[i].Age_Group),
                     Count |-> kept[i].Count]])

MaxCount(s) == CHOOSE m \in {s[i].Count : i \in 1..Len(s)} :
                   \A i \in 1..Len(s) : s[i].Count <= m

FirstMax(s) == CHOOSE i \in 1..Len(s) :
                   /\ s[i].Count = MaxCount(s)
                   /\ \A j \in 1..(i - 1) : s[j].Count # MaxCount(s)

\* idxmax answering an empty series with no label instead of raising.
idxmax_quiet(s) ==
    IF s = <<>> THEN [raised |-> "none", value |-> 0]
    ELSE [raised |-> "none", value |-> s[FirstMax(s)].key]

\* idxmax taking the last entry that holds the maximum.
idxmax_last(s) ==
    IF s = <<>> THEN [raised |-> "ValueError"]
    ELSE [raised |-> "none",
          value |-> s[CHOOSE i \in 1..Len(s) :
                         /\ s[i].Count = MaxCount(s)
                         /\ \A j \in (i + 1)..Len(s) : s[j].Count # MaxCount(s)].key]

\* Series.idxmax(): the label of the first entry holding the maximum; an
\* empty series raises ValueError.
idxmax(s) ==
    IF s = <<>> THEN [raised |-> "ValueError"]
    ELSE [raised |-> "none", value |-> s[FirstMax(s)].key]

RemoveAt(s, i) == SubSeq(s, 1, i - 1) \o SubSeq(s, i + 1, Len(s))

\* The entries sorted by value, largest first, without the cut to n.
RECURSIVE nlargest_uncut(_, _)
nlargest_uncut(s, n) ==
    IF s = <<>> THEN <<>>
    ELSE <<s[FirstMax(s)]>> \o nlargest_uncut(RemoveAt(s, FirstMax(s)), n)

\* Series.nlargest(n): the n largest entries, largest first; among equal
\* values the earlier entry comes first (keep='first').
RECURSIVE nlargest(_, _)
nlargest(s, n) ==
    IF n = 0 \/ s = <<>> THEN <<>>
    ELSE <<s[FirstMax(s)]>> \o nlargest(RemoveAt(s, FirstMax(s)), n - 1)

TOP_N == 10

\* f"{x:,.0f}": the decimal digits in groups of three, separated by commas.
RECURSIVE FormatThousands(_)
FormatThousands(n) ==
    IF n < 1000 THEN <<n>>
    ELSE Append(FormatThousands(n \div 1000), n % 1000)

-----------------------------------------------------------------------------
(* The loaders (app.py section 2).  A call yields the exception it raised   *)
(* ("none" when it returned), the table it returned, whether it opened the  *)
(* file, and the memo entry it leaves.                                      *)

\* load_master_data without the memo: the body runs on every call.
load_master_data_uncached(cache, file) ==
    IF ~file.exists
    THEN [raised |-> "FileNotFoundError", read |-> TRUE, cache |-> cache]
    ELSE LET df == [i \in 1..Len(file.table) |->
                       [file.table[i] EXCEPT !.date = to_datetime(@)]]
         IN [raised |-> "none", value |-> df, read |-> TRUE, cache |-> Cached(df)]

\* @st.cache_data load_master_data: a memo hit returns the stored table and
\* does not run the body; the body reads the CSV and parses the date column.
\* A call that raises stores nothing.
load_master_data(cache, file) ==
    IF cache.hit
    THEN [raised |-> "none", value |-> cache.value, read |-> FALSE, cache |-> cache]
    ELSE IF ~file.exists
    THEN [raised |-> "FileNotFoundError", read |-> TRUE, cache |-> cache]
    ELSE LET df == [i \in 1..Len(file.table) |->
                       [file.table[i] EXCEPT !.date = to_datetime(@)]]
         IN [raised |-> "none", value |-> df, read |-> TRUE, cache |-> Cached(df)]

\* The Combined_Date cell of one row of the forecast CSV.
CombinedDate(columns, r) ==
    IF "Date" \in columns /\ "date" \in columns THEN fillna(r["Date"], r["date"])
    ELSE IF "Date" \in columns THEN r["Date"]
    ELSE r["date"]

\* load_forecast_data without the memo: the body runs on every call.
load_forecast_data_uncached(cache, file) ==
    IF ~file.exists
    THEN [raised |-> "FileNotFoundError", read |-> TRUE, cache |-> cache]
    ELSE LET cols == file.table.columns
             rows == file.table.rows
             df == [columns |-> cols \cup {"Combined_Date"},
                    rows |-> [i \in 1..Len(rows) |->
                        [c \in cols \cup {"Combined_Date"} |->
                            IF c = "Combined_Date"
                            THEN to_datetime(CombinedDate(cols, rows[i]))
                            ELSE rows[i][c]]]]
         IN [raised |-> "none", value |-> df, read |-> TRUE, cache |-> Cached(df)]

\* load_forecast_data answering a missing file with an empty table.
load_forecast_data_swallow(cache, file) ==
    IF cache.hit
    THEN [raised |-> "none", value |-> cache.value, read |-> FALSE, cache |-> cache]
    ELSE LET cols == IF file.exists THEN file.table.columns ELSE {}
             rows == IF file.exists THEN file.table.rows ELSE <<>>
             df == [columns |-> cols \cup {"Combined_Date"},
                    rows |-> [i \in 1..Len(rows) |->
                        [c \in cols \cup {"Combined_Date"} |->
                            IF c = "Combined_Date"
                            THEN to_datetime(CombinedDate(cols, rows[i]))
                            ELSE rows[i][c]]]]
         IN [raised |-> "none", value |-> df, read |-> TRUE, cache |-> Cached(df)]

\* @st.cache_data load_forecast_data: as above; the body adds the column
\* Combined_Date and parses it.
load_forecast_data(cache, file) ==
    IF cache.hit
    THEN [raised |-> "none", value |-> cache.value, read |-> FALSE, cache |-> cache]
    ELSE IF ~file.exists
    THEN [raised |-> "FileNotFoundError", read |-> TRUE, cache |-> cache]
    ELSE LET cols == file.table.columns
             rows == file.table.rows
             df == [columns |-> cols \cup {"Combined_Date"},
                    rows |-> [i \in 1..Len(rows) |->
                        [c \in cols \cup {"Combined_Date"} |->
                            IF c = "Combined_Date"
                            THEN to_datetime(CombinedDate(cols, rows[i]))
                            ELSE rows[i][c]]]]
         IN [raised |-> "none", value |-> df, read |-> TRUE, cache |-> Cached(df)]

-----------------------------------------------------------------------------
(* Rendering.  An element records the call that rendered it, the part of    *)
(* the page it belongs to ("page" for what every execution renders, or the  *)
(* view's navigation label) and what it shows.                              *)

El(part, call, body) == [part |-> part, el |-> call, body |-> body]

\* The selectbox's options.
StateOptions(dfm) == <<ALL_INDIA>> \o unique(Column(dfm, "state"))

\* The global filter.
FilterByState(dfm, sel) ==
    IF sel # ALL_INDIA
    THEN SelectSeq(dfm, LAMBDA r : PdEq(r.state, sel))
    ELSE dfm

\* MODULE 1: EXECUTIVE SUMMARY
ExecutiveSummary(dff) ==
    LET total_enrol ==
            SumCount(SelectSeq(dff, LAMBDA r : PdEq(r.Type, "Enrolment")))
        total_updates ==
            SumCount(SelectSeq(dff, LAMBDA r : PdNe(r.Type, "Enrolment")))
        top == idxmax(GroupByDistrict(dff))
        trend_data == GroupByDateType(dff)
        title == <<El(PAGE_SUMMARY, "st.title", "Executive Dashboard")>>
    IN IF top.raised # "none"
       THEN [exception |-> top.raised,
             locals |-> [total_enrol |-> total_enrol,
                         total_updates |-> total_updates],
             screen |-> title]
       ELSE [exception |-> "none",
             locals |-> [total_enrol |-> total_enrol,
                         total_updates |-> total_updates,
                         top_district |-> top.value,
                         trend_data |-> trend_data],
             screen |-> title \o
                <<El(PAGE_SUMMARY, "st.metric",
                     <<"Total Enrolments", FormatThousands(total_enrol)>>),
                  El(PAGE_SUMMARY, "st.metric",
                     <<"Total Updates (Bio + Demo)", FormatThousands(total_updates)>>),
                  El(PAGE_SUMMARY, "st.metric",
                     <<"Highest Traffic District", top.value>>),
                  El(PAGE_SUMMARY, "st.subheader", "Traffic Trend Over Time"),
                  El(PAGE_SUMMARY, "st.plotly_chart",
                     [chart |-> "px.line", data |-> trend_data, x |-> "date",
                      y |-> "Count", color |-> "Type",
                      title |-> "Enrolment vs Updates Trend"])>>]

\* MODULE 2: DEMOGRAPHICS
Demographics(dff) ==
    LET age_summary == GroupByTypeAge(dff)
    IN [exception |-> "none",
        locals |-> [age_summary |-> age_summary],
        screen |->
           <<El(PAGE_DEMOGRAPHICS, "st.title", "Demographic Analysis"),
             El(PAGE_DEMOGRAPHICS, "st.subheader", "The Compliance Check"),
             El(PAGE_DEMOGRAPHICS, "st.plotly_chart",
                [chart |-> "px.bar", data |-> age_summary, x |-> "Type",
                 y |-> "Count", color |-> "Age_Group",
                 title |-> "Who is accessing which service?"]),
             El(PAGE_DEMOGRAPHICS, "st.subheader", "Data Story"),
             El(PAGE_DEMOGRAPHICS, "st.info",
                "The Mandatory Biometric Update policy is working effectively.")>>]

\* MODULE 3: MIGRATION TRACKER
MigrationTracker(dff) ==
    LET demo_data == SelectSeq(dff, LAMBDA r : PdEq(r.Type, "Update_Demographic"))
        top_districts == nlargest(GroupByDistrict(demo_data), TOP_N)
    IN [exception |-> "none",
        locals |-> [demo_data |-> demo_data, top_districts |-> top_districts],
        screen |->
           <<El(PAGE_MIGRATION, "st.title", "Migration & Address Updates"),
             El(PAGE_MIGRATION, "st.subheader", "Hotspots for Demographic Updates"),
             El(PAGE_MIGRATION, "st.plotly_chart",
                [chart |-> "px.bar", data |-> top_districts, x |-> "Count",
                 y |-> "district", color |-> "Count",
                 title |-> "Top 10 Districts for Demographic Updates"]),
             El(PAGE_MIGRATION, "st.markdown",
                "High volume in specific districts often correlates with urban migration hubs or marriage migration.")>>]

\* dropna on the wrong column.
dropna_actual(rows, c) == SelectSeq(rows, LAMBDA r : r["Actual_Count"] # NaN)

\* df.dropna(subset=['Predicted_Count'])
dropna(rows, c) == SelectSeq(rows, LAMBDA r : r[c] # NaN)

\* MODULE 4: AI FORECAST
AIForecast(dfc) ==
    LET pred_data == dropna(dfc.rows, "Predicted_Count")
    IN [exception |-> "none",
        locals |-> [pred_data |-> pred_data],
        screen |->
           <<El(PAGE_FORECAST, "st.title", "Future Demand Prediction"),
             El(PAGE_FORECAST, "st.markdown",
                "Using Linear Regression to predict Enrolment trends for the next 6 months."),
             El(PAGE_FORECAST, "st.plotly_chart",
                [chart |-> "go.Figure",
                 title |-> "Enrolment Forecast (Next 6 Months)",
                 traces |->
                   <<[name |-> "Actual Data", mode |-> "lines",
                      x |-> Column(dfc.rows, "Combined_Date"),
                      y |-> Column(dfc.rows, "Actual_Count")],
                     [name |-> "AI Forecast", mode |-> "lines+markers",
                      x |-> Column(pred_data, "Combined_Date"),
                      y |-> Column(pred_data, "Predicted_Count")]>>]),
             El(PAGE_FORECAST, "st.success",
                "AI Insight: The trend slope is negative (-43/day). We are reaching saturation.")>>]

\* The if/elif chain over page.
View(pg, dff, dfc) ==
    CASE pg = PAGE_SUMMARY -> ExecutiveSummary(dff)
      [] pg = PAGE_DEMOGRAPHICS -> Demographics(dff)
      [] pg = PAGE_MIGRATION -> MigrationTracker(dff)
      [] pg = PAGE_FORECAST -> AIForecast(dfc)

\* What every execution renders before the data-dependent part.
Header(failed) ==
    <<El("page", "st.markdown", "<style>")>>
    \o (IF failed THEN <<El("page", "st.error", "Files not found!")>> ELSE <<>>)
    \o <<El("page", "st.sidebar.title", "UIDAI Dashboard"),
         El("page", "st.sidebar.radio", Pages)>>

\* One execution of the script, top to bottom, with the radio holding pg and
\* the selectbox holding its entry number idx.
RunScript(pg, idx) ==
    LET m == load_master_data(cache_master, fs_master)
        sel == StateOptions(m.value)[idx]
        f == IF m.raised = "none"
             THEN load_forecast_data(cache_forecast, fs_forecast)
             ELSE [raised |-> "not called", read |-> FALSE, cache |-> cache_forecast]
        ok == m.raised = "none" /\ f.raised = "none"
        dff == FilterByState(m.value, sel)
        v == View(pg, dff, f.value)
    IN /\ cache_master' = m.cache
       /\ cache_forecast' = f.cache
       /\ file_reads' = (IF m.read THEN {MASTER_CSV} ELSE {})
                        \cup (IF f.read THEN {FORECAST_CSV} ELSE {})
       /\ df_master' = IF m.raised = "none" THEN Bound(m.value) ELSE Unbound
       /\ df_forecast' = IF ok THEN Bound(f.value) ELSE Unbound
       /\ data_loaded' = ok
       /\ page' = pg
       /\ session' = "open"
       /\ IF ok
          THEN /\ selected_index' = idx
               /\ df_filtered' = Bound(dff)
               /\ locals' = v.locals
               /\ exception' = v.exception
               /\ screen' = Header(FALSE)
                    \o <<El("page", "st.sidebar.subheader", "Filters"),
                         El("page", "st.sidebar.selectbox", StateOptions(m.value))>>
                    \o v.screen
          ELSE \* the selectbox is not rendered, so its stored choice is dropped
               /\ selected_index' = 1
               /\ df_filtered' = Unbound
               /\ locals' = <<>>
               /\ exception' = "none"
               /\ screen' = Header(TRUE)
                    \o <<El("page", "st.write", "Waiting for data...")>>
       /\ UNCHANGED <<fs_master, fs_forecast>>

-----------------------------------------------------------------------------
(* The input files considered. *)

MaxRows == 2

MaxForecastRows == 2

WideDistricts == 11

SeqsUpTo(S, n) == UNION {[1..k -> S] : k \in 0..n}

MasterRow(st, d, t, a, c, dt) ==
    [date |-> dt, state |-> st, district |-> d, Type |-> t, Age_Group |-> a,
     Count |-> c]

\* (state, district) pairs: two districts of one state, a state whose name
\* is the text "All India", a row without a state.
Places == {<<"Kerala", 1>>, <<"Kerala", 2>>, <<"All India", 3>>, <<NaN, 2>>}

\* (Type, Age_Group, Count, date)
Kinds == {<<"Enrolment", "0-5", 1, "2024-01-01">>,
          <<"Update_Demographic", "18+", 1, "2024-02-01">>,
          <<"Update_Demographic", "18+", 2, NaN>>}

MasterRows == {MasterRow(p[1], p[2], k[1], k[2], k[3], k[4]) :
                   p \in Places, k \in Kinds}

\* The master tables of spec.md section 8, one with a missing Type and a
\* missing Age_Group, and two with rows that name no district (0).
ExampleMasters ==
    {<<MasterRow("Kerala", 1, "Enrolment", "0-5", 100, "2024-01-01"),
       MasterRow("Kerala", 1, "Update_Biometric", "5-17", 40, "2024-01-01"),
       MasterRow("Kerala", 2, "Update_Demographic", "18+", 10, "2024-02-01")>>,
     <<MasterRow("Goa", 2, "Enrolment", "0-5", 50, "2024-01-01"),
       MasterRow("Goa", 1, "Enrolment", "0-5", 5, "2024-01-01")>>,
     <<MasterRow("Goa", 1, NaN, "18+", 3, "2024-01-01"),
       MasterRow("Goa", 1, "Enrolment", NaN, 4, "2024-02-01")>>,
     <<MasterRow("Goa", 0, "Update_Demographic", "18+", 7, "2024-01-01"),
       MasterRow("Goa", 1, "Update_Demographic", "18+", 2, "2024-02-01")>>,
     <<MasterRow("Goa", 0, "Enrolment", "0-5", 7, "2024-01-01")>>}

\* One demographic update per district, n districts in descending order of
\* name; with extra, also an enrolment in the last district and a second
\* demographic update in the first.
WideMaster(n, extra) ==
    (IF extra /\ n > 0
     THEN <<MasterRow("Kerala", n, "Enrolment", "0-5", 5, "2024-01-01")>>
     ELSE <<>>)
    \o [i \in 1..n |->
           MasterRow("Kerala", n + 1 - i, "Update_Demographic", "18+",
                     1 + ((n + 1 - i) % 3), "2024-01-01")]
    \o (IF extra /\ n > 0
        THEN <<MasterRow("Kerala", 1, "Update_Demographic", "18+", 1, "2024-02-01")>>
        ELSE <<>>)

WideMasters == {WideMaster(n, extra) : n \in 0..WideDistricts, extra \in BOOLEAN}

MasterTables == SeqsUpTo(MasterRows, MaxRows) \cup ExampleMasters \cup WideMasters

\* (Actual_Count, Predicted_Count): a historical row, a future row, a row
\* with both.
Counts == {<<"100", NaN>>, <<NaN, "120">>, <<"90", "95">>}

ForecastRows(cols) ==
    {[c \in cols \cup {"Actual_Count", "Predicted_Count"} |->
         CASE c = "Date" -> D
           [] c = "date" -> d
           [] c = "Actual_Count" -> k[1]
           [] c = "Predicted_Count" -> k[2]] :
     D \in {"2024-01-01", NaN}, d \in {"2024-02-01", NaN}, k \in Counts}

ForecastTable(cols, rows) ==
    [columns |-> cols \cup {"Actual_Count", "Predicted_Count"}, rows |-> rows]

\* n rows of which the last k carry a prediction.
LongForecast(n, k) ==
    ForecastTable({"Date", "date"},
        [i \in 1..n |->
            [c \in {"Date", "date", "Actual_Count", "Predicted_Count"} |->
                CASE c = "Date" -> IF i % 2 = 0 THEN "2024-01-01" ELSE NaN
                  [] c = "date" -> IF i % 2 = 0 THEN NaN ELSE "2024-02-01"
                  [] c = "Actual_Count" -> IF i <= n - k THEN "100" ELSE NaN
                  [] c = "Predicted_Count" -> IF i <= n - k THEN NaN ELSE "120"]])

LongRows == 10

DateColumns == {{"Date", "date"}, {"Date"}, {"date"}}

ForecastTables ==
    UNION {{ForecastTable(cols, rows) :
               rows \in SeqsUpTo(ForecastRows(cols), MaxForecastRows)} :
           cols \in DateColumns}
    \cup {LongForecast(LongRows, k) : k \in 0..LongRows}

\* The files the environment swaps in while the dashboard runs.
SmallMasters ==
    {<<>>,
     <<MasterRow("Kerala", 2, "Update_Demographic", "18+", 1, "2024-02-01"),
       MasterRow(NaN, 1, "Enrolment", "0-5", 1, "2024-01-01")>>,
     <<MasterRow("Goa", 1, "Enrolment", "0-5", 2, "2024-01-01")>>}

SmallForecasts ==
    {LongForecast(2, 1),
     ForecastTable({"date"},
        <<[c \in {"date", "Actual_Count", "Predicted_Count"} |->
              CASE c = "date" -> "2024-01-01"
                [] c = "Actual_Count" -> NaN
                [] c = "Predicted_Count" -> "120"]>>)}

-----------------------------------------------------------------------------
(* Actions. *)

NotObserved == [taken |-> FALSE]

\* A browser opens (or reloads) the page: both widgets at their defaults.
NewSession ==
    /\ RunScript(Pages[1], 1)
    /\ UNCHANGED observed

\* The user picks another entry of the radio; the script is executed again.
SelectPage(pg) ==
    /\ session = "open"
    /\ pg # page
    /\ RunScript(pg, selected_index)
    /\ UNCHANGED observed

\* The user picks an entry of the selectbox, which the last execution
\* rendered only when the data was loaded.
SelectState(i) ==
    /\ session = "open"
    /\ data_loaded
    /\ i \in 1..Len(StateOptions(df_master.value))
    /\ RunScript(page, i)
    /\ UNCHANGED observed

\* The entries of the selectbox as last rendered.
Entries == IF data_loaded THEN 1..Len(StateOptions(df_master.value)) ELSE {}

\* The script is executed again with the widgets as they are.
Rerun ==
    /\ session = "open"
    /\ RunScript(page, selected_index)
    /\ UNCHANGED observed

ScriptVars == <<cache_master, cache_forecast, page, selected_index, session,
                data_loaded, df_master, df_forecast, df_filtered, locals,
                file_reads, exception, screen>>

\* Environment: a file is written, replaced or removed.
WriteMaster(t) ==
    /\ fs_master' = File(t)
    /\ UNCHANGED <<fs_forecast, ScriptVars, observed>>

RemoveMaster ==
    /\ fs_master' = NoFile
    /\ UNCHANGED <<fs_forecast, ScriptVars, observed>>

WriteForecast(t) ==
    /\ fs_forecast' = File(t)
    /\ UNCHANGED <<fs_master, ScriptVars, observed>>

RemoveForecast ==
    /\ fs_forecast' = NoFile
    /\ UNCHANGED <<fs_master, ScriptVars, observed>>

\* Observer: notes the page as rendered now, once, after a successful load.
Observe ==
    /\ data_loaded
    /\ ~observed.taken
    /\ observed' = [taken |-> TRUE, page |-> page,
                    selected_index |-> selected_index, screen |-> screen,
                    exception |-> exception, locals |-> locals,
                    df_master |-> df_master, df_forecast |-> df_forecast]
    /\ UNCHANGED <<fs_master, fs_forecast, ScriptVars>>

Idle ==
    /\ cache_master = NotCached
    /\ cache_forecast = NotCached
    /\ page = Pages[1]
    /\ selected_index = 1
    /\ session = "idle"
    /\ data_loaded = FALSE
    /\ df_master = Unbound
    /\ df_forecast = Unbound
    /\ df_filtered = Unbound
    /\ locals = <<>>
    /\ file_reads = {}
    /\ exception = "none"
    /\ screen = <<>>
    /\ observed = NotObserved

\* The dashboard process with its environment.
Init ==
    /\ fs_master \in {NoFile} \cup {File(t) : t \in SmallMasters}
    /\ fs_forecast \in {NoFile} \cup {File(t) : t \in SmallForecasts}
    /\ Idle

Next ==
    \/ NewSession
    \/ \E i \in 1..Len(Pages) : SelectPage(Pages[i])
    \/ \E i \in Entries : SelectState(i)
    \/ Rerun
    \/ \E t \in SmallMasters : WriteMaster(t)
    \/ RemoveMaster
    \/ \E t \in SmallForecasts : WriteForecast(t)
    \/ RemoveForecast
    \/ Observe

Spec == Init /\ [][Next]_vars

\* The views over every master table considered, in one session, the files
\* left alone.
InitMaster ==
    /\ fs_master \in {File(t) : t \in MasterTables}
    /\ fs_forecast = File(LongForecast(2, 1))
    /\ Idle

NextMaster ==
    \/ session = "idle" /\ NewSession
    \/ \E i \in 1..Len(Pages) : SelectPage(Pages[i])
    \/ \E i \in Entries : SelectState(i)

SpecMaster == InitMaster /\ [][NextMaster]_vars

\* The loader and the forecast view over every forecast table considered, in
\* one session.
InitForecast ==
    /\ fs_master = File(<<MasterRow("Goa", 1, "Enrolment", "0-5", 2, "2024-01-01")>>)
    /\ fs_forecast \in {File(t) : t \in ForecastTables}
    /\ Idle

NextForecast ==
    \/ session = "idle" /\ NewSession
    \/ \E i \in 1..Len(Pages) : SelectPage(Pages[i])

SpecForecast == InitForecast /\ [][NextForecast]_vars

-----------------------------------------------------------------------------
(* Vocabulary of the properties. *)

\* The rows of a table at the indices idx, in table order.
Pick(rows, idx) ==
    [k \in 1..Cardinality(idx) |->
        rows[CHOOSE i \in idx : Cardinality({j \in idx : j < i}) = k - 1]]

\* The sum of Count over the rows at the indices idx.
RECURSIVE SumOver(_, _)
SumOver(rows, idx) ==
    IF idx = {} THEN 0
    ELSE LET i == CHOOSE j \in idx : TRUE
         IN rows[i].Count + SumOver(rows, idx \ {i})

\* This step is one execution of the script.
Executes == \E idx \in {selected_index, selected_index'} : RunScript(page', idx)

Shows(scr, call) == \E i \in 1..Len(scr) : scr[i].el = call

\* The views that rendered something, and those that rendered to their end.
ViewsEntered(scr) == {scr[i].part : i \in 1..Len(scr)} \ {"page"}

ViewsRendered(scr, exc) == IF exc = "none" THEN ViewsEntered(scr) ELSE {}

\* The page of an execution that found a file missing.
WaitingForData(dl, exc, scr) ==
    /\ ~dl
    /\ exc = "none"
    /\ \E i \in 1..Len(scr) :
           scr[i].el = "st.error" /\ scr[i].body = "Files not found!"
    /\ scr[Len(scr)].el = "st.write"
    /\ scr[Len(scr)].body = "Waiting for data..."
    /\ ~Shows(scr, "st.sidebar.selectbox")
    /\ ViewsEntered(scr) = {}

\* A loader is about to open a file that is not there.
MissingAtLoad ==
    \/ ~cache_master.hit /\ ~fs_master.exists
    \/ ~cache_forecast.hit /\ ~fs_forecast.exists

-----------------------------------------------------------------------------
\* C1: once a loader has returned, its memo entry never changes, and every
\* later execution gets exactly the stored table from it without opening the
\* CSV file again, whatever has happened to the file since.
C1_LoadedOnce ==
    [][/\ cache_master.hit => cache_master' = cache_master
       /\ cache_forecast.hit => cache_forecast' = cache_forecast
       /\ (Executes /\ cache_master.hit) =>
              /\ df_master' = Bound(cache_master.value)
              /\ MASTER_CSV \notin file_reads'
       /\ (Executes /\ cache_forecast.hit) =>
              /\ df_forecast' = Bound(cache_forecast.value)
              /\ FORECAST_CSV \notin file_reads']_vars

\* An execution that read nothing although both files are gone.
C1_Witness ==
    /\ session = "open"
    /\ data_loaded
    /\ file_reads = {}
    /\ ~fs_master.exists
    /\ ~fs_forecast.exists

\* C2: an execution in which a loader opens a missing file does not end in an
\* exception: data_loaded is false, the error message and "Waiting for
\* data..." are shown, and neither the state filter nor any view is
\* rendered, whatever the radio holds.
C2_MissingFileDegrades ==
    [][(Executes /\ MissingAtLoad) =>
           WaitingForData(data_loaded', exception', screen')]_vars

\* The master table loaded, forecast_data.csv missing, a view other than the
\* first selected.
C2_Witness ==
    /\ session = "open"
    /\ page = PAGE_MIGRATION
    /\ cache_master.hit
    /\ ~cache_forecast.hit
    /\ ~fs_forecast.exists
    /\ file_reads = {FORECAST_CSV}
    /\ WaitingForData(data_loaded, exception, screen)


-----------------------------------------------------------------------------
(* The filter and the views, over SpecMaster. *)

Loaded == session = "open" /\ data_loaded

\* The script global selected_state: what the selectbox returned.
selected_state == StateOptions(df_master.value)[selected_index]

Indices(rows) == 1..Len(rows)

\* The districts named in a table, and a district's total Count.
DistrictsOf(rows) == {rows[i].district : i \in Indices(rows)} \ {0}

DistrictTotal(rows, d) ==
    SumOver(rows, {i \in Indices(rows) : rows[i].district = d})

FirstRowOf(rows, d) ==
    CHOOSE i \in Indices(rows) :
        /\ rows[i].district = d
        /\ \A j \in 1..(i - 1) : rows[j].district # d

\* C3: when the entry chosen in the selectbox is a state of the master
\* table, df_filtered is exactly the table's rows of that state, in table
\* order, so every row of the table is in it or has another state; when the
\* entry chosen is the first one, "All India", df_filtered is the whole table.
C3_FilterByState ==
    Loaded =>
        LET dfm == df_master.value
            dff == df_filtered.value
            same == {i \in Indices(dfm) : dfm[i].state = selected_state}
        IN /\ (selected_index = 1 => dff = dfm)
           /\ (selected_index > 1 /\ selected_state # NaN) =>
                  /\ \A k \in Indices(dff) : dff[k].state = selected_state
                  /\ dff = Pick(dfm, same)

\* C4 as claimed: the top district has the largest total, and among the
\* districts with that total it is the one whose first row comes first.
C4_TopDistrictFirstRow ==
    (Loaded /\ page = PAGE_SUMMARY /\ exception = "none") =>
        LET dff == df_filtered.value
            top == locals.top_district
        IN /\ top \in DistrictsOf(dff)
           /\ \A d \in DistrictsOf(dff) :
                  /\ DistrictTotal(dff, d) <= DistrictTotal(dff, top)
                  /\ DistrictTotal(dff, d) = DistrictTotal(dff, top) =>
                         FirstRowOf(dff, top) <= FirstRowOf(dff, d)

\* C4: the top district has the largest total Count over the filtered rows,
\* and among the districts with that total it is the one that sorts first
\* (the first key of the grouped sums, which are in ascending key order).
C4_TopDistrictSortsFirst ==
    (Loaded /\ page = PAGE_SUMMARY /\ exception = "none") =>
        LET dff == df_filtered.value
            top == locals.top_district
        IN /\ top \in DistrictsOf(dff)
           /\ \A d \in DistrictsOf(dff) :
                  /\ DistrictTotal(dff, d) <= DistrictTotal(dff, top)
                  /\ DistrictTotal(dff, d) = DistrictTotal(dff, top) => top <= d

\* Two districts tie for the largest total and the one whose row comes first
\* is not the one that sorts first.
C4_Witness ==
    /\ Loaded
    /\ page = PAGE_SUMMARY
    /\ exception = "none"
    /\ \E d \in DistrictsOf(df_filtered.value) :
           /\ d # locals.top_district
           /\ DistrictTotal(df_filtered.value, d)
                  = DistrictTotal(df_filtered.value, locals.top_district)
           /\ FirstRowOf(df_filtered.value, d)
                  < FirstRowOf(df_filtered.value, locals.top_district)

\* C6: the Executive Summary over a filtered table without rows ends in the
\* uncaught ValueError of idxmax: data_loaded stays true, "Waiting for
\* data..." is not shown, and no view is rendered to its end.
C6_EmptySummaryFails ==
    (Loaded /\ page = PAGE_SUMMARY /\ df_filtered.value = <<>>) =>
        /\ exception = "ValueError"
        /\ ~Shows(screen, "st.write")
        /\ ~Shows(screen, "st.error")
        /\ ~Shows(screen, "st.metric")
        /\ ViewsRendered(screen, exception) = {}

\* The master table itself has no rows.
C6_Witness ==
    /\ Loaded
    /\ page = PAGE_SUMMARY
    /\ df_master.value = <<>>
    /\ exception = "ValueError"

\* C7: total_enrol is the sum of Count over the filtered rows of Type
\* "Enrolment", total_updates the sum over all the other filtered rows, and
\* the two add up to the sum of Count over the filtered table.
C7_TotalsPartition ==
    (Loaded /\ page = PAGE_SUMMARY) =>
        LET dff == df_filtered.value
            enrol == {i \in Indices(dff) : dff[i].Type = "Enrolment"}
        IN /\ locals.total_enrol = SumOver(dff, enrol)
           /\ locals.total_updates = SumOver(dff, Indices(dff) \ enrol)
           /\ locals.total_enrol + locals.total_updates
                  = SumOver(dff, Indices(dff))

\* Enrolment 100, Update_Biometric 40, Update_Demographic 10.
C7_Witness ==
    /\ Loaded
    /\ page = PAGE_SUMMARY
    /\ Len(df_filtered.value) = 3
    /\ \E i \in 1..3 : /\ df_filtered.value[i].Type = "Update_Biometric"
                       /\ df_filtered.value[i].Count = 40
    /\ \E i \in 1..3 : /\ df_filtered.value[i].Type = "Update_Demographic"
                       /\ df_filtered.value[i].Count = 10
    /\ locals.total_enrol = 100
    /\ locals.total_updates = 50

\* The filtered rows of Type Update_Demographic.
DemographicUpdates(rows) ==
    Pick(rows, {i \in Indices(rows) : rows[i].Type = "Update_Demographic"})

-----------------------------------------------------------------------------
(* The forecast loader and view, over SpecForecast. *)

\* The figure handed to st.plotly_chart.
Chart(scr) == scr[CHOOSE i \in Indices(scr) : scr[i].el = "st.plotly_chart"].body

\* C5: Combined_Date is, row by row, the parsed Date cell when both columns
\* exist and Date is present, the parsed date cell when both exist and Date
\* is missing, and the parsed cell of the only column when one exists.
C5_CombinedDate ==
    Loaded =>
        LET file == fs_forecast.table
            df == df_forecast.value
        IN /\ Len(df.rows) = Len(file.rows)
           /\ \A i \in Indices(file.rows) :
                  LET r == file.rows[i]
                      cd == df.rows[i]["Combined_Date"]
                  IN IF {"Date", "date"} \subseteq file.columns
                     THEN /\ r["Date"] # NaN => cd = to_datetime(r["Date"])
                          /\ r["Date"] = NaN => cd = to_datetime(r["date"])
                     ELSE IF "Date" \in file.columns
                     THEN cd = to_datetime(r["Date"])
                     ELSE cd = to_datetime(r["date"])

\* A row (Date 2024-01-01, date missing) yields 2024-01-01 and a row (Date
\* missing, date 2024-02-01) yields 2024-02-01.
C5_Witness ==
    /\ Loaded
    /\ \E i \in Indices(df_forecast.value.rows) :
           LET r == df_forecast.value.rows[i]
           IN /\ {"Date", "date"} \subseteq DOMAIN r
              /\ r["Date"] = "2024-01-01"
              /\ r["date"] = NaN
              /\ r["Combined_Date"] = <<2024, 1, 1>>
    /\ \E i \in Indices(df_forecast.value.rows) :
           LET r == df_forecast.value.rows[i]
           IN /\ {"Date", "date"} \subseteq DOMAIN r
              /\ r["Date"] = NaN
              /\ r["date"] = "2024-02-01"
              /\ r["Combined_Date"] = <<2024, 2, 1>>

\* C9: the trace "AI Forecast" holds exactly the rows of the forecast table
\* with a Predicted_Count, in table order; the trace "Actual Data" holds
\* every row.
C9_ForecastSeries ==
    (Loaded /\ page = PAGE_FORECAST) =>
        LET rows == df_forecast.value.rows
            predicted == Pick(rows, {i \in Indices(rows) :
                                        rows[i]["Predicted_Count"] # NaN})
            actual == Chart(screen).traces[1]
            forecast == Chart(screen).traces[2]
        IN /\ forecast.name = "AI Forecast"
           /\ Len(forecast.y) = Len(predicted)
           /\ Len(forecast.x) = Len(predicted)
           /\ \A k \in Indices(predicted) :
                  /\ forecast.y[k] = predicted[k]["Predicted_Count"]
                  /\ forecast.x[k] = predicted[k]["Combined_Date"]
           /\ actual.name = "Actual Data"
           /\ Len(actual.y) = Len(rows)
           /\ Len(actual.x) = Len(rows)
           /\ \A i \in Indices(rows) :
                  /\ actual.y[i] = rows[i]["Actual_Count"]
                  /\ actual.x[i] = rows[i]["Combined_Date"]

\* 3 of 10 rows carry a prediction and the forecast trace has 3 points.
C9_Witness ==
    /\ Loaded
    /\ page = PAGE_FORECAST
    /\ Len(df_forecast.value.rows) = 10
    /\ Cardinality({i \in 1..10 :
                       df_forecast.value.rows[i]["Predicted_Count"] # NaN}) = 3
    /\ Len(Chart(screen).traces[2].y) = 3
    /\ Len(Chart(screen).traces[1].y) = 10

-----------------------------------------------------------------------------
(* Reruns, over Spec. *)

\* What the observer noted is what is there now.
TablesAsObserved ==
    observed.taken =>
        /\ df_master = observed.df_master
        /\ df_forecast = observed.df_forecast
        /\ cache_master = Cached(observed.df_master.value)
        /\ cache_forecast = Cached(observed.df_forecast.value)

PageAsObserved ==
    (observed.taken /\ page = observed.page
        /\ selected_index = observed.selected_index) =>
        /\ screen = observed.screen
        /\ exception = observed.exception
        /\ locals = observed.locals

=============================================================================
